---- MODULE Spec2Model ----
(***************************************************************************)
(* M/M/S/S blocking probability: the Monte Carlo simulator                 *)
(* (simulateBlockingProbability, simulation.js) and the Erlang-B formula   *)
(* (erlangBFormula, erlangB.js).                                           *)
(*                                                                         *)
(* Two specifications share the module:                                    *)
(*   SpecErlang  one evaluation of erlangBFormula, one loop iteration per  *)
(*               step, on JavaScript Numbers modelled as decimal floats    *)
(*               with the range of an IEEE double;                         *)
(*   Spec        invocations of simulateBlockingProbability on one         *)
(*               JavaScript event loop, with their setTimeout callbacks.   *)
(***************************************************************************)
EXTENDS Integers, Sequences, FiniteSets, TLC

VARIABLES
    \* ---- erlangBFormula(A, S) ----
    eA,            \* argument A, a Number
    eS,            \* argument S, an integer
    ek,            \* loop variable k
    numerator,     \* let numerator
    denominator,   \* let denominator
    eresult,       \* the value returned
    epc,           \* "start" | "loop" | "done" ("off" under Spec)
    \* ---- simulateBlockingProbability(lambda, mu, servers, timeLimit) ----
    lambda,        \* the arguments, the same at every invocation
    mu,
    servers,
    timeLimit,
    tape,          \* the values Math.random() returns, in order, from its seed
    sim,           \* sim[r]: the locals, pending callbacks and result of invocation r
    active,        \* the invocation now on the call stack, 0 when the stack is empty
    \* ---- simulateAndPlot() of chart.js ----
    plot           \* the form's values, offeredLoads and the calls made per point

evars == <<eA, eS, ek, numerator, denominator, eresult, epc>>
svars == <<lambda, mu, servers, timeLimit, tape, sim, active>>
pvars == <<plot>>

vars == <<eA, eS, ek, numerator, denominator, eresult, epc,
          lambda, mu, servers, timeLimit, tape, sim, active, plot>>

(***************************************************************************)
(* JavaScript Numbers.  A Number is NaN, +/-Infinity or a finite value     *)
(* m * 10^e whose mantissa m keeps Precision decimal digits                *)
(* (10^(Precision-1) <= |m| < 10^Precision, or m = 0).  The range is that  *)
(* of an IEEE-754 double: magnitudes above Number.MAX_VALUE                *)
(* (1.797e308) become Infinity, magnitudes below 1e-324 become 0.          *)
(***************************************************************************)
Precision == 4
MaxExp10 == 308
MaxMant == 1797
MinExp10 == 324

Abs(x) == IF x < 0 THEN -x ELSE x
Sign(x) == IF x < 0 THEN -1 ELSE IF x > 0 THEN 1 ELSE 0

RECURSIVE Pow10(_)
Pow10(n) == IF n <= 0 THEN 1 ELSE 10 * Pow10(n - 1)

RECURSIVE Digits(_)
Digits(n) == IF n < 10 THEN 1 ELSE 1 + Digits(n \div 10)

NaN == [k |-> "nan", m |-> 0, e |-> 0]
Inf(s) == [k |-> "inf", m |-> s, e |-> 0]
Fin(m, e) == [k |-> "fin", m |-> m, e |-> e]
Zero == Fin(0, 0)

\* Overflow to Infinity and underflow to 0 of a normalised mantissa/exponent.
Range(m, e) ==
    LET top == e + Precision - 1 IN
    IF top > MaxExp10 \/ (top = MaxExp10 /\ Abs(m) > MaxMant * Pow10(Precision - 4))
    THEN Inf(Sign(m))
    ELSE IF top < -MinExp10 THEN Zero
    ELSE Fin(m, e)

\* Rounds the integer m * 10^e to Precision digits, to nearest.
Norm(m, e) ==
    IF m = 0 THEN Zero
    ELSE LET a == Abs(m)
             d == Digits(a)
         IN IF d > Precision
            THEN LET sh == d - Precision
                     r  == (a + (Pow10(sh) \div 2)) \div Pow10(sh)
                 IN IF r = Pow10(Precision)
                    THEN Range(Sign(m) * Pow10(Precision - 1), e + sh + 1)
                    ELSE Range(Sign(m) * r, e + sh)
            ELSE Range(m * Pow10(Precision - d), e - (Precision - d))

FromInt(n) == Norm(n, 0)
One == FromInt(1)

FNeg(a) == [a EXCEPT !.m = -a.m]

FMul(a, b) ==
    IF a.k = "nan" \/ b.k = "nan" THEN NaN
    ELSE IF a.k = "inf" \/ b.k = "inf"
         THEN IF a.m = 0 \/ b.m = 0 THEN NaN ELSE Inf(Sign(a.m) * Sign(b.m))
    ELSE Norm(a.m * b.m, a.e + b.e)

FDiv(a, b) ==
    IF a.k = "nan" \/ b.k = "nan" THEN NaN
    ELSE IF a.k = "inf"
         THEN IF b.k = "inf" THEN NaN
              ELSE Inf(IF b.m < 0 THEN -a.m ELSE a.m)
    ELSE IF b.k = "inf" THEN Zero
    ELSE IF b.m = 0
         THEN IF a.m = 0 THEN NaN ELSE Inf(Sign(a.m))
    ELSE Norm(Sign(a.m) * Sign(b.m) * ((Abs(a.m) * Pow10(Precision + 1)) \div Abs(b.m)),
              a.e - b.e - (Precision + 1))

FAdd(a, b) ==
    IF a.k = "nan" \/ b.k = "nan" THEN NaN
    ELSE IF a.k = "inf"
         THEN IF b.k = "inf" /\ b.m # a.m THEN NaN ELSE a
    ELSE IF b.k = "inf" THEN b
    ELSE IF a.m = 0 THEN b
    ELSE IF b.m = 0 THEN a
    ELSE LET hi == IF a.e >= b.e THEN a ELSE b
             lo == IF a.e >= b.e THEN b ELSE a
             d  == hi.e - lo.e
         IN IF d > Precision + 1 THEN hi
            ELSE Norm(hi.m * Pow10(d) + lo.m, lo.e)

\* a <= b as JavaScript compares Numbers: false when either is NaN.
FLeq(a, b) ==
    IF a.k = "nan" \/ b.k = "nan" THEN FALSE
    ELSE IF a.k = "inf" /\ b.k = "inf" THEN a.m <= b.m
    ELSE LET d == FAdd(b, FNeg(a)) IN d.m >= 0

\* a < b as JavaScript compares Numbers.
FLess(a, b) == FLeq(a, b) /\ a # b

IsFinite(a) == a.k = "fin"

\* Math.pow(A, n) for an integer n >= 0, by squaring.
RECURSIVE PowNat(_, _)
PowNat(A, n) ==
    IF n <= 0 THEN One
    ELSE IF n % 2 = 0
         THEN LET p == PowNat(A, n \div 2) IN FMul(p, p)
         ELSE FMul(A, PowNat(A, n - 1))

Pow(A, n) == IF n >= 0 THEN PowNat(A, n) ELSE FDiv(One, PowNat(A, -n))

(***************************************************************************)
(* erlangB.js                                                              *)
(***************************************************************************)
\* acc * lo * (lo + 1) * ... * hi, multiplied in ascending order.  (The test
\* of acc.k has acc evaluated before the recursion descends.)
RECURSIVE MulUp(_, _, _)
MulUp(acc, lo, hi) ==
    IF acc.k = "nan" \/ hi < lo THEN acc
    ELSE FMul(FromInt(hi), MulUp(acc, lo, hi - 1))

\* function factorial(n) { return n <= 1 ? 1 : n * factorial(n - 1); }
\* The recursion multiplies 1 * 2 * ... * n in ascending order as it unwinds;
\* it is evaluated here in blocks of 16 factors, in that order.
RECURSIVE factorial(_)
factorial(n) ==
    IF n <= 1 THEN One
    ELSE LET base == 16 * ((n - 1) \div 16)
         IN MulUp(factorial(base), base + 1, n)

\* A numerator whose power is one short: Math.pow(A, S - 1) / factorial(S).
NumeratorShortPower(A, S) == FDiv(Pow(A, S - 1), factorial(S))

\* let numerator = Math.pow(A, S) / factorial(S)
Numerator(A, S) == FDiv(Pow(A, S), factorial(S))

\* Math.pow(A, k) / factorial(k)
Term(A, k) == FDiv(Pow(A, k), factorial(k))

\* A loop that stops one term early: k < S.
LoopCondStrict(k, S) == k < S

\* for (let k = 0; k <= S; k++)
LoopCond(k, S) == k <= S

\* denominator after the iterations k = lo..hi, starting from acc.
RECURSIVE SumUp(_, _, _, _)
SumUp(acc, A, lo, hi) ==
    IF acc.k = "none" \/ hi < lo THEN acc
    ELSE FAdd(SumUp(acc, A, lo, hi - 1), Term(A, hi))

\* denominator after the iterations k = 0..n (blocks of 16 iterations).
RECURSIVE DenominatorUpTo(_, _)
DenominatorUpTo(A, n) ==
    IF n < 0 THEN Zero
    ELSE LET base == 16 * (n \div 16)
         IN SumUp(DenominatorUpTo(A, base - 1), A, base, n)

\* The value erlangBFormula(A, S) returns: the loop below run to its end.
erlangBFormula(A, S) ==
    FDiv(Numerator(A, S),
         IF LoopCond(0, S)
         THEN DenominatorUpTo(A, CHOOSE n \in 0..(S + 1) : LoopCond(n, S) /\ ~LoopCond(n + 1, S))
         ELSE Zero)

\* The arguments of the evaluations explored.
LoadsA == {FromInt(-1), Zero, Fin(5000, -4), One, FromInt(2), FromInt(10), FromInt(100)}
ServersS == {-1, 0, 1, 2, 3, 200}

\* simulateAndPlot not invoked.
NotPlotting ==
    [pc |-> "idle", version |-> 0, servers |-> 0, lambda |-> Zero, mu |-> Zero,
     offeredLoads |-> <<>>, theoreticalBlocking |-> <<>>, simulatedBlocking |-> <<>>]

EInit ==
    /\ eA \in LoadsA
    /\ eS \in ServersS
    /\ ek = 0
    /\ numerator = Zero
    /\ denominator = Zero
    /\ eresult = Zero
    /\ epc = "start"
    /\ lambda = 0 /\ mu = 0 /\ servers = 0 /\ timeLimit = 0
    /\ tape = <<>> /\ sim = <<>> /\ active = 0
    /\ plot = NotPlotting

EStart ==
    /\ epc = "start"
    /\ numerator' = Numerator(eA, eS)
    /\ denominator' = Zero
    /\ ek' = 0
    /\ epc' = "loop"
    /\ UNCHANGED <<eA, eS, eresult>>
    /\ UNCHANGED <<svars, pvars>>

ELoop ==
    /\ epc = "loop"
    /\ LoopCond(ek, eS)
    /\ denominator' = FAdd(denominator, Term(eA, ek))
    /\ ek' = ek + 1
    /\ UNCHANGED <<eA, eS, numerator, eresult, epc>>
    /\ UNCHANGED <<svars, pvars>>

EReturn ==
    /\ epc = "loop"
    /\ ~LoopCond(ek, eS)
    /\ eresult' = FDiv(numerator, denominator)
    /\ epc' = "done"
    /\ UNCHANGED <<eA, eS, ek, numerator, denominator>>
    /\ UNCHANGED <<svars, pvars>>

ENext == EStart \/ ELoop \/ EReturn

SpecErlang == EInit /\ [][ENext]_vars

EDone == epc = "done"
ValidLoad(A) == FLeq(Zero, A)

(***************************************************************************)
(* Claims about erlangBFormula, checked under SpecErlang.                  *)
(***************************************************************************)

\* C4 (as claimed): called with a negative offered load A or a negative
\* server count S, erlangBFormula fails with InvalidInput and returns no
\* numeric result, that is, it never reaches its return statement.
C4_InvalidInputRejected ==
    (eS < 0 \/ ~ValidLoad(eA)) => ~EDone

\* C6: for every offered load A >= 0, erlangBFormula(A, 0) returns 1.
C6_NoServersAlwaysBlocked ==
    (EDone /\ eS = 0 /\ ValidLoad(eA)) => eresult = One

C6_Witness == EDone /\ eS = 0 /\ eA = FromInt(100) /\ eresult = One

\* C7 (as claimed): for every server count S >= 0, S = 0 included,
\* erlangBFormula(0, S) returns 0.
C7_ZeroLoadNeverBlocked ==
    (EDone /\ eA = Zero /\ eS >= 0) => eresult = Zero

\* C7 (amended): erlangBFormula(0, S) returns 0 for every server count
\* S >= 1, and erlangBFormula(0, 0) returns 1.
C7_ZeroLoadAmended ==
    (EDone /\ eA = Zero /\ eS >= 0) =>
        eresult = (IF eS = 0 THEN One ELSE Zero)

C7_Witness == EDone /\ eA = Zero /\ eS = 3 /\ eresult = Zero

\* C8 (as claimed): for a fixed server count S >= 0 and offered loads
\* 0 <= A1 <= A2, erlangBFormula(A1, S) <= erlangBFormula(A2, S).
C8_MonotoneInLoad ==
    (EDone /\ eS >= 0 /\ ValidLoad(eA)) =>
        \A A1 \in LoadsA :
            (ValidLoad(A1) /\ A1 # eA /\ FLeq(A1, eA)) =>
                FLeq(erlangBFormula(A1, eS), eresult)

\* C9 (as claimed): for a fixed offered load A >= 0 and server counts
\* 0 <= S1 <= S2, erlangBFormula(A, S1) >= erlangBFormula(A, S2).
C9_AntitoneInServers ==
    (EDone /\ eS >= 0 /\ ValidLoad(eA)) =>
        \A S1 \in ServersS :
            (0 <= S1 /\ S1 < eS) =>
                FLeq(eresult, erlangBFormula(eA, S1))

\* C10 (as claimed): erlangBFormula(100, 200) returns a finite value in
\* [0, 1].
C10_StableAt100_200 ==
    (EDone /\ eA = FromInt(100) /\ eS = 200) =>
        /\ IsFinite(eresult)
        /\ FLeq(Zero, eresult)
        /\ FLeq(eresult, One)

(***************************************************************************)
(* simulation.js.  Invocations of simulateBlockingProbability run one      *)
(* after the other on one event loop, all with the same arguments and,     *)
(* Math.random() being reseeded at each call, the same sequence of draws.  *)
(* A function body runs to completion: a setTimeout callback runs only     *)
(* when the call stack is empty.                                           *)
(***************************************************************************)
NumRuns == 2
MaxArrivals == 4

Runs == 1..NumRuns

\* The values Math.random() may return: e^-1 and e^-2, with Math.log of each.
LogTable == {<<Fin(3679, -4), FromInt(-1)>>, <<Fin(1353, -4), FromInt(-2)>>}
Uniforms == {p[1] : p \in LogTable}
MathLog(U) == (CHOOSE p \in LogTable : p[1] = U)[2]

\* The arguments explored, valid and invalid.
Lambdas == {-1, 0, 1, 2}
Mus == {0, 1, 2}
ServerCounts == {-1, 0, 1, 2}
TimeLimits == {0, 1, 2}

\* serversInUse = 0 carried over from the invocation before instead.
CarriedServersInUse(r) == IF r > 1 THEN sim[r - 1].serversInUse ELSE 0

\* let ... serversInUse = 0
InitialServersInUse(r) == 0

NotCalled ==
    [pc |-> "idle", blocked |-> 0, served |-> 0, currentTime |-> Zero,
     serversInUse |-> 0, pos |-> 0, pending |-> 0, log |-> <<>>, result |-> Zero]

SInit ==
    /\ lambda \in Lambdas
    /\ mu \in Mus
    /\ servers \in ServerCounts
    /\ timeLimit \in TimeLimits
    /\ tape = <<>>
    /\ sim = [r \in Runs |-> NotCalled]
    /\ active = 0
    /\ eA = Zero /\ eS = 0 /\ ek = 0 /\ numerator = Zero /\ denominator = Zero
    /\ eresult = Zero /\ epc = "off"
    /\ plot = NotPlotting

\* simulateBlockingProbability(lambda, mu, servers, timeLimit) is called:
\* let blocked = 0, served = 0, currentTime = 0, serversInUse = 0
Call(r) ==
    /\ active = 0
    /\ sim[r].pc = "idle"
    /\ \A q \in Runs : q < r => sim[q].pc = "returned"
    /\ sim' = [sim EXCEPT ![r] =
                 [NotCalled EXCEPT !.pc = "loop",
                                   !.serversInUse = InitialServersInUse(r)]]
    /\ active' = r
    /\ UNCHANGED <<lambda, mu, servers, timeLimit, tape>>
    /\ UNCHANGED <<evars, pvars>>

\* The draw without its minus sign: Math.log(U) / rate.
ExponentialNoMinus(U, rate) == FDiv(MathLog(U), FromInt(rate))

\* -Math.log(U) / rate
Exponential(U, rate) == FDiv(FNeg(MathLog(U)), FromInt(rate))

\* while (currentTime < timeLimit)
LoopGuard(currentTime) == FLess(currentTime, FromInt(timeLimit))

\* An admission test that lets one customer too many in: serversInUse <= servers.
AdmitsNonStrict(inUse) == inUse <= servers

\* if (serversInUse < servers)
Admits(inUse) == inUse < servers

\* One iteration of the while loop; U1 and U2 are the two values
\* Math.random() returns in it.
Arrival(r, U1, U2) ==
    LET s            == sim[r]
        interArrival == Exponential(U1, lambda)
        serviceTime  == Exponential(U2, mu)
        now          == FAdd(s.currentTime, interArrival)
        admit        == Admits(s.serversInUse)
        entry        == [t |-> now, service |-> serviceTime, admitted |-> admit,
                         inUse |-> s.serversInUse, draws |-> 2]
    IN [s EXCEPT !.currentTime = now,
                 !.pos = s.pos + 2,
                 !.serversInUse = IF admit THEN s.serversInUse + 1 ELSE s.serversInUse,
                 !.served = IF admit THEN s.served + 1 ELSE s.served,
                 !.pending = IF admit THEN s.pending + 1 ELSE s.pending,
                 !.blocked = IF admit THEN s.blocked ELSE s.blocked + 1,
                 !.log = Append(s.log, entry)]

\* The n-th value of the random sequence: the recorded one, or a fresh one.
Drawn(n, U) == n <= Len(tape) => tape[n] = U

LoopStep(r) ==
    /\ active = r
    /\ sim[r].pc = "loop"
    /\ LoopGuard(sim[r].currentTime)
    /\ Len(sim[r].log) < MaxArrivals
    /\ \E U1, U2 \in Uniforms :
          /\ Drawn(sim[r].pos + 1, U1)
          /\ Drawn(sim[r].pos + 2, U2)
          /\ tape' = IF sim[r].pos + 2 <= Len(tape) THEN tape
                     ELSE SubSeq(tape, 1, sim[r].pos) \o <<U1, U2>>
          /\ sim' = [sim EXCEPT ![r] = Arrival(r, U1, U2)]
    /\ UNCHANGED <<lambda, mu, servers, timeLimit, active>>
    /\ UNCHANGED <<evars, pvars>>

\* return blocked / (blocked + served)
Return(r) ==
    /\ active = r
    /\ sim[r].pc = "loop"
    /\ ~LoopGuard(sim[r].currentTime)
    /\ sim' = [sim EXCEPT ![r].pc = "returned",
                          ![r].result = FDiv(FromInt(sim[r].blocked),
                                             FromInt(sim[r].blocked + sim[r].served))]
    /\ active' = 0
    /\ UNCHANGED <<lambda, mu, servers, timeLimit, tape>>
    /\ UNCHANGED <<evars, pvars>>

\* A callback of invocation r that decrements one serversInUse shared by all
\* invocations, the one the latest call is using.
DepartureShared(r) ==
    LET q == CHOOSE x \in Runs :
                 /\ sim[x].pc # "idle"
                 /\ \A y \in Runs : sim[y].pc # "idle" => y <= x
    IN /\ active = 0
       /\ sim[r].pending > 0
       /\ sim' = [sim EXCEPT ![r].pending = sim[r].pending - 1,
                             ![q].serversInUse = sim[q].serversInUse - 1]
       /\ UNCHANGED <<lambda, mu, servers, timeLimit, tape, active>>
       /\ UNCHANGED <<evars, pvars>>

\* A callback that runs although an invocation is still on the call stack.
DepartureAnytime(r) ==
    /\ sim[r].pending > 0
    /\ sim' = [sim EXCEPT ![r].serversInUse = sim[r].serversInUse - 1,
                          ![r].pending = sim[r].pending - 1]
    /\ UNCHANGED <<lambda, mu, servers, timeLimit, tape, active>>
    /\ UNCHANGED <<evars, pvars>>

\* setTimeout(() => { serversInUse--; }, serviceTime * 1000): one pending
\* callback of invocation r runs.
Departure(r) ==
    /\ active = 0
    /\ sim[r].pending > 0
    /\ sim' = [sim EXCEPT ![r].serversInUse = sim[r].serversInUse - 1,
                          ![r].pending = sim[r].pending - 1]
    /\ UNCHANGED <<lambda, mu, servers, timeLimit, tape, active>>
    /\ UNCHANGED <<evars, pvars>>

Next ==
    \E r \in Runs : Call(r) \/ LoopStep(r) \/ Return(r) \/ Departure(r)

Spec == SInit /\ [][Next]_vars

ValidArgs == lambda > 0 /\ mu > 0 /\ servers >= 0 /\ timeLimit > 0
Returned(r) == sim[r].pc = "returned"

(***************************************************************************)
(* Claims about simulateBlockingProbability, checked under Spec.           *)
(***************************************************************************)

\* C1 (as claimed): with servers = 1, when the first arrival is admitted and
\* the second arrival occurs at a simulated time strictly greater than the
\* first arrival's time plus its service duration, the second arrival is
\* admitted as well.
C1_SecondAdmittedAfterDeparture ==
    \A r \in Runs :
        LET log == sim[r].log IN
        (/\ servers = 1
         /\ Len(log) >= 2
         /\ log[1].admitted
         /\ FLess(FAdd(log[1].t, log[1].service), log[2].t))
        => log[2].admitted

\* C2 (as claimed): when no arrival occurs inside the horizon (the first
\* inter-arrival gap is at least the horizon), the call reports
\* InsufficientSamples or a sentinel: it does not return a Number computed
\* as blocked / (blocked + served).
C2_NoArrivalNotANumber ==
    \A r \in Runs :
        LET log == sim[r].log IN
        (/\ ValidArgs
         /\ Len(log) >= 1
         /\ ~FLess(log[1].t, FromInt(timeLimit)))
        => ~Returned(r)

\* C3 (as claimed): with an arrival rate <= 0, a service rate <= 0,
\* servers < 0 or a horizon <= 0 the call fails with InvalidInput and
\* returns no numeric result, that is, it never reaches its return statement.
C3_InvalidInputRejected ==
    \A r \in Runs :
        (lambda <= 0 \/ mu <= 0 \/ servers < 0 \/ timeLimit <= 0) => ~Returned(r)

\* C5: two invocations with the same lambda, mu, servers and horizon and the
\* same sequence of uniform draws return the same value (and take the same
\* admit/reject decisions), whenever their pending departure callbacks run.
C5_Deterministic ==
    \A r1, r2 \in Runs :
        (Returned(r1) /\ Returned(r2)) =>
            /\ sim[r1].result = sim[r2].result
            /\ sim[r1].log = sim[r2].log

\* Both runs returned, with admitted and rejected arrivals; every callback of
\* the first ran before the second returned, none of the second has run yet.
C5_Witness ==
    /\ ValidArgs
    /\ Returned(1) /\ Returned(2)
    /\ sim[1].served > 0 /\ sim[1].blocked > 0
    /\ sim[1].pending = 0 /\ sim[1].serversInUse = 0
    /\ sim[2].pending = sim[2].served

\* The arrivals before the i-th of a log that were admitted and whose
\* departure time (arrival time plus service duration) is later than the
\* i-th arrival's time.
InServiceAt(log, i) ==
    {j \in 1..(i - 1) :
        log[j].admitted /\ FLess(log[i].t, FAdd(log[j].t, log[j].service))}

\* C11 (as claimed): at every arrival's admit-or-reject decision,
\* serversInUse equals the number of previously admitted customers whose
\* departure time is strictly greater than the current simulated time.
C11_DeparturesReconciled ==
    \A r \in Runs :
        ValidArgs =>
            \A i \in 1..Len(sim[r].log) :
                sim[r].log[i].inUse = Cardinality(InServiceAt(sim[r].log, i))

\* C12: for servers >= 0, 0 <= serversInUse <= servers in every reachable
\* state of every invocation, also after it has returned, while its pending
\* departure callbacks run.
C12_ServersInUseBounded ==
    \A r \in Runs :
        servers >= 0 =>
            (0 <= sim[r].serversInUse /\ sim[r].serversInUse <= servers)

\* A returned run that filled both of its servers and rejected an arrival;
\* one of its two callbacks has run, the other is pending.
C12_Witness ==
    /\ ValidArgs
    /\ servers = 2
    /\ Returned(1)
    /\ sim[1].served = 2 /\ sim[1].blocked > 0
    /\ sim[1].pending = 1 /\ sim[1].serversInUse = 1

\* C13 (as claimed): every arrival counted in served or blocked has a
\* simulated arrival time strictly less than the horizon.
C13_CountedInsideHorizon ==
    \A r \in Runs :
        ValidArgs =>
            /\ sim[r].served + sim[r].blocked = Len(sim[r].log)
            /\ \A i \in 1..Len(sim[r].log) :
                  FLess(sim[r].log[i].t, FromInt(timeLimit))

\* C14 (as claimed): a rejected arrival consumes exactly one value of the
\* random source (its inter-arrival gap) and an admitted one two, so the
\* values consumed so far are one per arrival plus one per admitted arrival.
C14_RejectedDrawsNoService ==
    \A r \in Runs :
        sim[r].pos = Len(sim[r].log) + sim[r].served

\* C15: a departure callback left pending by one invocation (a step that
\* takes one of its pending callbacks away) never changes serversInUse,
\* served or blocked of any other invocation.
C15_CallbacksStayPrivate ==
    [][\A r, q \in Runs :
          (r # q /\ sim'[r].pending < sim[r].pending) =>
              /\ sim'[q].serversInUse = sim[q].serversInUse
              /\ sim'[q].served = sim[q].served
              /\ sim'[q].blocked = sim[q].blocked]_vars

\* The second invocation has returned with both servers taken and none of
\* its callbacks run, after one of the first invocation's two callbacks ran.
C15_Witness ==
    /\ ValidArgs
    /\ Returned(2)
    /\ sim[1].served = 2 /\ sim[1].pending = 1 /\ sim[1].serversInUse = 1
    /\ sim[2].served = 2 /\ sim[2].pending = 2 /\ sim[2].serversInUse = 2

Min(a, b) == IF a <= b THEN a ELSE b

\* C19: no departure callback runs before the function returns: while an
\* invocation is in its loop every admitted customer still holds its server
\* (serversInUse = served, all callbacks pending), and, for servers >= 0 and
\* N arrivals processed, served = min(N, servers) and blocked = N - served,
\* in the loop and at the return.
C19_NoDepartureBeforeReturn ==
    \A r \in Runs :
        LET s == sim[r]
            N == Len(s.log)
        IN (servers >= 0 /\ s.pc # "idle") =>
              /\ s.pc = "loop" => (s.serversInUse = s.served /\ s.pending = s.served)
              /\ s.served = Min(N, servers)
              /\ s.blocked = N - s.served

\* A run with one server returned after three arrivals: one served, two
\* blocked, its callback still pending.
C19_Witness ==
    /\ ValidArgs
    /\ servers = 1
    /\ Returned(1)
    /\ Len(sim[1].log) = 3
    /\ sim[1].served = 1 /\ sim[1].blocked = 2 /\ sim[1].pending = 1

\* The shortest inter-arrival gap: the one drawn from the largest uniform value.
MinGap ==
    CHOOSE g \in {Exponential(U, lambda) : U \in Uniforms} :
        \A U \in Uniforms : FLeq(g, Exponential(U, lambda))

\* C16: for lambda > 0, mu > 0 and horizon > 0, and uniform draws from a
\* finite set of values in (0, 1), the loop terminates: currentTime strictly
\* increases on every iteration; the n-th iteration starts only if n - 1
\* shortest gaps fit below the horizon, which bounds the arrivals; and an
\* invocation in its loop can always take its next iteration or return
\* (no iteration is cut off by MaxArrivals).
C16_Terminates ==
    /\ [][\A r \in Runs :
            (ValidArgs /\ Len(sim'[r].log) > Len(sim[r].log)) =>
                FLess(sim[r].currentTime, sim'[r].currentTime)]_vars
    /\ [](\A r \in Runs :
            (ValidArgs /\ Len(sim[r].log) >= 1) =>
                /\ FLeq(FMul(FromInt(Len(sim[r].log)), MinGap), sim[r].currentTime)
                /\ FLess(FMul(FromInt(Len(sim[r].log) - 1), MinGap), FromInt(timeLimit)))
    /\ [](\A r \in Runs :
            (ValidArgs /\ sim[r].pc = "loop" /\ LoopGuard(sim[r].currentTime)) =>
                Len(sim[r].log) < MaxArrivals)

\* A run with valid arguments that returned, the horizon reached, after as
\* many arrivals as the shortest gaps allow inside the longest horizon.
C16_Witness ==
    /\ ValidArgs
    /\ Returned(1)
    /\ Len(sim[1].log) = 4
    /\ ~FLess(sim[1].currentTime, FromInt(timeLimit))

(***************************************************************************)
(* erlangBFormula under exact arithmetic: the same statements on rational  *)
(* numbers n / d in lowest terms (d > 0), for offered loads that are       *)
(* multiples of 1/2, as the sweep of chart.js passes them.                 *)
(***************************************************************************)
MaxLoad2 == 6
MaxExactServers == 4

RECURSIVE GCD(_, _)
GCD(a, b) == IF b = 0 THEN a ELSE GCD(b, a % b)

Q(n, d) ==
    LET g == GCD(Abs(n), Abs(d))
    IN IF n = 0 THEN [n |-> 0, d |-> 1]
       ELSE [n |-> (Sign(d) * n) \div g, d |-> Abs(d) \div g]

QInt(n) == Q(n, 1)

QAdd(a, b) ==
    LET g == GCD(a.d, b.d)
    IN Q(a.n * (b.d \div g) + b.n * (a.d \div g), (a.d \div g) * b.d)

QMul(a, b) ==
    LET g1 == GCD(Abs(a.n), b.d)
        g2 == GCD(Abs(b.n), a.d)
    IN IF a.n = 0 \/ b.n = 0 THEN QInt(0)
       ELSE Q((a.n \div g1) * (b.n \div g2), (a.d \div g2) * (b.d \div g1))

\* a / b for b # 0.
QDiv(a, b) == QMul(a, [n |-> Sign(b.n) * b.d, d |-> Abs(b.n)])

\* Math.pow(A, n) for an integer n >= 0.
RECURSIVE QPow(_, _)
QPow(A, n) == IF n <= 0 THEN QInt(1) ELSE QMul(A, QPow(A, n - 1))

\* function factorial(n) { return n <= 1 ? 1 : n * factorial(n - 1); }
RECURSIVE QFactorial(_)
QFactorial(n) == IF n <= 1 THEN 1 ELSE n * QFactorial(n - 1)

\* let numerator = Math.pow(A, S) / factorial(S)
QNumerator(A, S) == QDiv(QPow(A, S), QInt(QFactorial(S)))

\* Math.pow(A, k) / factorial(k)
QTerm(A, k) == QDiv(QPow(A, k), QInt(QFactorial(k)))

XInit ==
    /\ eA \in {Q(a, 2) : a \in 0..MaxLoad2}
    /\ eS \in 0..MaxExactServers
    /\ ek = 0
    /\ numerator = QInt(0)
    /\ denominator = QInt(0)
    /\ eresult = QInt(0)
    /\ epc = "start"
    /\ lambda = 0 /\ mu = 0 /\ servers = 0 /\ timeLimit = 0
    /\ tape = <<>> /\ sim = <<>> /\ active = 0
    /\ plot = NotPlotting

XStart ==
    /\ epc = "start"
    /\ numerator' = QNumerator(eA, eS)
    /\ denominator' = QInt(0)
    /\ ek' = 0
    /\ epc' = "loop"
    /\ UNCHANGED <<eA, eS, eresult>>
    /\ UNCHANGED <<svars, pvars>>

XLoop ==
    /\ epc = "loop"
    /\ LoopCond(ek, eS)
    /\ denominator' = QAdd(denominator, QTerm(eA, ek))
    /\ ek' = ek + 1
    /\ UNCHANGED <<eA, eS, numerator, eresult, epc>>
    /\ UNCHANGED <<svars, pvars>>

\* return numerator / denominator; a division by 0 is no rational number
\* and leaves the evaluation without a result.
XReturn ==
    /\ epc = "loop"
    /\ ~LoopCond(ek, eS)
    /\ IF denominator.n = 0
       THEN epc' = "undefined" /\ UNCHANGED eresult
       ELSE epc' = "done" /\ eresult' = QDiv(numerator, denominator)
    /\ UNCHANGED <<eA, eS, ek, numerator, denominator>>
    /\ UNCHANGED <<svars, pvars>>

XNext == XStart \/ XLoop \/ XReturn

SpecExact == XInit /\ [][XNext]_vars

\* B(A, 0) = 1, B(A, k) = A * B(A, k - 1) / (k + A * B(A, k - 1)).
RECURSIVE Recurrence(_, _)
Recurrence(A, k) ==
    IF k <= 0 THEN QInt(1)
    ELSE LET ab == QMul(A, Recurrence(A, k - 1))
         IN QDiv(ab, QAdd(QInt(k), ab))

\* C17: for every offered load A >= 0 and integer S >= 0 of the bounded set,
\* the evaluation of erlangBFormula(A, S) under exact arithmetic returns, and
\* returns the value of the recurrence evaluated for k = 1..S.
C17_EqualsRecurrence ==
    /\ epc # "undefined"
    /\ EDone => eresult = Recurrence(eA, eS)

C17_Witness ==
    /\ EDone /\ eA = Q(3, 2) /\ eS = 3
    /\ eresult = Recurrence(eA, eS)
    /\ eresult.n > 0 /\ eresult.n < eresult.d

(***************************************************************************)
(* simulateAndPlot() of chart.js. The file holds two versions of the       *)
(* function (lines 3-70 and 74-184); plot.version says which one runs.     *)
(* plot.theoreticalBlocking and plot.simulatedBlocking record, per sample  *)
(* point, the arguments of the call that computes the point.               *)
(***************************************************************************)
NumPoints == 20

Versions == {1, 2}
FormServers == {1, 2}
FormLambdas == {FromInt(1), FromInt(2), FromInt(3)}
FormMus == {FromInt(1), FromInt(2)}

Half == Fin(5000, -4)

\* version 1: (_, i) => ((i + 1) * 0.5 * lambda) / mu
\* version 2: (_, i) => (i + 1) * 0.5
OfferedLoad(version, i, l, m) ==
    IF version = 1
    THEN FDiv(FMul(FMul(FromInt(i + 1), Half), l), m)
    ELSE FMul(FromInt(i + 1), Half)

PInit ==
    /\ plot \in {[pc |-> "loads", version |-> v, servers |-> s, lambda |-> l, mu |-> m,
                  offeredLoads |-> <<>>, theoreticalBlocking |-> <<>>,
                  simulatedBlocking |-> <<>>] :
                    v \in Versions, s \in FormServers, l \in FormLambdas, m \in FormMus}
    /\ eA = Zero /\ eS = 0 /\ ek = 0 /\ numerator = Zero /\ denominator = Zero
    /\ eresult = Zero /\ epc = "off"
    /\ lambda = 0 /\ mu = 0 /\ servers = 0 /\ timeLimit = 0
    /\ tape = <<>> /\ sim = <<>> /\ active = 0

\* const offeredLoads = Array.from({ length: 20 }, ...)
OfferedLoads ==
    /\ plot.pc = "loads"
    /\ plot' = [plot EXCEPT
                  !.offeredLoads = [i \in 1..NumPoints |->
                      OfferedLoad(plot.version, i - 1, plot.lambda, plot.mu)],
                  !.pc = "theoretical"]
    /\ UNCHANGED <<evars, svars>>

\* offeredLoads.map((A) => erlangBFormula(A, servers)), one element
TheoreticalPoint ==
    /\ plot.pc = "theoretical"
    /\ LET i == Len(plot.theoreticalBlocking) + 1
       IN plot' = [plot EXCEPT
                     !.theoreticalBlocking =
                         Append(@, [A |-> plot.offeredLoads[i], S |-> plot.servers]),
                     !.pc = IF i = NumPoints THEN "simulated" ELSE @]
    /\ UNCHANGED <<evars, svars>>

\* version 1: offeredLoads.map(() => simulateBlockingProbability(lambda, mu, servers, 1000))
\* version 2: offeredLoads.map((A) => simulateBlockingProbability(A, mu, servers, 1000))
SimulatedPoint ==
    /\ plot.pc = "simulated"
    /\ LET i == Len(plot.simulatedBlocking) + 1
       IN plot' = [plot EXCEPT
                     !.simulatedBlocking =
                         Append(@, [lambda |-> IF plot.version = 1 THEN plot.lambda
                                               ELSE plot.offeredLoads[i],
                                    mu |-> plot.mu,
                                    servers |-> plot.servers,
                                    timeLimit |-> FromInt(1000)]),
                     !.pc = IF i = NumPoints THEN "chart" ELSE @]
    /\ UNCHANGED <<evars, svars>>

PNext == OfferedLoads \/ TheoreticalPoint \/ SimulatedPoint

SpecPlot == PInit /\ [][PNext]_vars

\* C18: at each sample point the arrival rate and the service rate passed to
\* simulateBlockingProbability have a ratio equal to the offered load A passed
\* to erlangBFormula for that point, and the server count is the same.
C18_SameSystem ==
    \A i \in 1..Len(plot.simulatedBlocking) :
        /\ FDiv(plot.simulatedBlocking[i].lambda, plot.simulatedBlocking[i].mu)
               = plot.theoreticalBlocking[i].A
        /\ plot.simulatedBlocking[i].servers = plot.theoreticalBlocking[i].S

====
